---- MODULE Spec2Model ----
(***************************************************************************)
(* LawSathi backend (backend/server.py): the request handlers chat_endpoint,*)
(* upload_document and get_chat_history, the two store collections they     *)
(* write and read, and the single event-loop thread they run on.            *)
(*                                                                         *)
(* Texts whose length matters (extracted text) are sequences of one-        *)
(* character strings; identifiers and fixed messages are strings.           *)
(* An Optional[str] is a set: {} is None, {s} is the string s.              *)
(***************************************************************************)
EXTENDS Integers, Sequences, FiniteSets, TLC

\* ---------------------------------------------------------------- bounds
\* Number of requests served in one run (request slots, in arrival order).
NumReq == 2
\* The wall clock runs from 0 to MaxTime.
MaxTime == 1

\* ------------------------------------------------------- program constants
\* extracted_text[:500] ... len(extracted_text) > 500
TruncLen == 500
\* .to_list(100)
HistoryLimit == 100

Req == 1..NumReq

\* variant: the type check also lets plain text through
allowed_types_any_text ==
  {"application/pdf", "image/jpeg", "image/png", "image/jpg", "text/plain"}

allowed_types == {"application/pdf", "image/jpeg", "image/png", "image/jpg"}

Apology == "I apologize, but I'm having trouble processing your request right now. Please try again later."

Ellipsis == <<".", ".", ".">>

Sources == <<"Indian Legal Database", "Government Schemes Portal">>

\* ------------------------------------------------------------ pure helpers
Repeat(c, n) == [i \in 1..n |-> c]

Whitespace == {" ", "\n", "\t"}

\* str.lstrip() / str.rstrip()
RECURSIVE LStrip(_)
LStrip(s) == IF s # <<>> /\ Head(s) \in Whitespace THEN LStrip(Tail(s)) ELSE s

RECURSIVE RStrip(_)
RStrip(s) ==
  IF s # <<>> /\ s[Len(s)] \in Whitespace THEN RStrip(SubSeq(s, 1, Len(s) - 1)) ELSE s

\* str.strip(): drop leading and trailing whitespace
Strip(s) == RStrip(LStrip(s))

\* text = ""; for page in pages: text += page.extract_text() + "\n"
RECURSIVE JoinPages(_)
JoinPages(pages) ==
  IF pages = <<>> THEN <<>>
  ELSE Head(pages) \o <<"\n">> \o JoinPages(Tail(pages))

\* extract_text_from_pdf: [ok, text]; a reader failure is the 400 of line 145
extract_text_from_pdf(file) ==
  IF file.fmt = "pdf"
  THEN [ok |-> TRUE, text |-> Strip(JoinPages(file.pages))]
  ELSE [ok |-> FALSE, text |-> <<>>]

\* extract_text_from_image: [ok, text]; an OCR failure is the 400 of line 165
extract_text_from_image(file) ==
  IF file.fmt = "img"
  THEN [ok |-> TRUE, text |-> Strip(file.pages[1])]
  ELSE [ok |-> FALSE, text |-> <<>>]

\* lines 218-221: dispatch on the declared content type
ExtractText(content_type, file) ==
  IF content_type = "application/pdf"
  THEN extract_text_from_pdf(file)
  ELSE extract_text_from_image(file)

\* variant: the length test is >= instead of >
ResponseText_ge(extracted_text) ==
  IF Len(extracted_text) >= TruncLen
  THEN SubSeq(extracted_text, 1, TruncLen) \o Ellipsis
  ELSE extracted_text

\* line 264: the extracted_text of the upload response
ResponseText(extracted_text) ==
  IF Len(extracted_text) > TruncLen
  THEN SubSeq(extracted_text, 1, TruncLen) \o Ellipsis
  ELSE extracted_text

\* variant: the identifier is drawn once, at import, and reused
UuidStr_once(n) == "uuid-0"

\* str(uuid.uuid4()): the n-th identifier drawn
UuidStr(n) == "uuid-" \o ToString(n)

\* request.session_id or str(uuid.uuid4()): is the left operand truthy
Truthy(opt) == opt # {} /\ opt # {""}

TheStr(opt) == CHOOSE s \in opt : TRUE

\* variant: message_type is left at its default
ChatMessage_default_type(id, session_id, message, response, timestamp, message_type) ==
  [id |-> id, session_id |-> session_id, message |-> message,
   response |-> response, timestamp |-> timestamp, message_type |-> "text"]

\* class ChatMessage (lines 44-50); id and timestamp are the values the
\* default factories draw at construction
ChatMessage(id, session_id, message, response, timestamp, message_type) ==
  [id |-> id, session_id |-> session_id, message |-> message,
   response |-> response, timestamp |-> timestamp, message_type |-> message_type]

\* class DocumentUpload (lines 63-69)
DocumentUpload(id, session_id, filename, extracted_text, simplified_explanation, timestamp) ==
  [id |-> id, session_id |-> session_id, filename |-> filename,
   extracted_text |-> extracted_text,
   simplified_explanation |-> simplified_explanation, timestamp |-> timestamp]

\* what chat.send_message does: it returns a text or it raises
AiOutcomes == {[raises |-> FALSE, text |-> "answer"], [raises |-> TRUE, text |-> ""]}

\* variant: no try/except, a raise of the AI call propagates
get_ai_response_no_except(sent) == [raised |-> sent.raises, text |-> sent.text]

\* get_ai_response (lines 111-133): the try/except turns a raise of the AI
\* call into the apology text; the function itself never raises
get_ai_response(sent) ==
  [raised |-> FALSE, text |-> IF sent.raises THEN Apology ELSE sent.text]

\* insert_one: the store adds its own _id to the document
InsertOne(coll, doc, oid) == coll \cup {[_id |-> oid] @@ doc}

\* lines 286-293: projection of a stored document to the returned fields
CleanMsg(msg) ==
  [id |-> msg.id, session_id |-> msg.session_id, message |-> msg.message,
   response |-> msg.response, timestamp |-> msg.timestamp,
   message_type |-> msg.message_type]

\* variant: the query has no filter
Find_unfiltered(coll, session_id) == coll

\* find({"session_id": session_id})
Find(coll, session_id) == {m \in coll : m.session_id = session_id}

\* the orders in which the store may return documents of equal sort key:
\* it fixes none
RECURSIVE Orders(_)
Orders(G) ==
  IF G = {} THEN {<<>>}
  ELSE UNION {{<<m>> \o t : t \in Orders(G \ {m})} : m \in G}

\* .sort("timestamp", 1): every list of the documents of S whose timestamps
\* lie in lo..hi, in ascending timestamp order
RECURSIVE SortRange(_, _, _)
SortRange(S, lo, hi) ==
  IF lo > hi THEN {<<>>}
  ELSE IF lo = hi THEN Orders({m \in S : m.timestamp = lo})
  ELSE LET mid == (lo + hi) \div 2
           left == SortRange(S, lo, mid)
           right == SortRange(S, mid + 1, hi)
       IN {a \o b : a \in left, b \in right}

Sort(S) ==
  IF S = {} THEN {<<>>}
  ELSE LET lo == CHOOSE t \in {m.timestamp : m \in S} : \A m \in S : t <= m.timestamp
           hi == CHOOSE t \in {m.timestamp : m \in S} : \A m \in S : m.timestamp <= t
       IN SortRange(S, lo, hi)

\* .to_list(n): the first n documents of the cursor
ToList(cursor, n) == IF Len(cursor) > n THEN SubSeq(cursor, 1, n) ELSE cursor

\* find(...).sort("timestamp", 1).to_list(n): the lists the query may return
FindSortLimit(coll, session_id, n) ==
  {ToList(cursor, n) : cursor \in Sort(Find(coll, session_id))}

\* ------------------------------------------------------------------ inputs
SessionArgs == {"s1", "s2"}

\* ChatRequest.session_id: absent, empty, or a caller's string
ChatSessionArgs == {{}, {""}, {"s1"}}

PdfBlank == [fmt |-> "pdf", filename |-> "blank.pdf", pages |-> << <<" ">>, <<>> >>]
PdfExact == [fmt |-> "pdf", filename |-> "exact.pdf",
             pages |-> << Repeat("a", TruncLen - 2), <<"b">> >>]
ImgLong == [fmt |-> "img", filename |-> "scan.png",
             pages |-> << <<"\n">> \o Repeat("c", TruncLen + 1) \o <<" ">> >>]
ImgBlank == [fmt |-> "img", filename |-> "white.png", pages |-> << <<" ", "\n">> >>]
Corrupt == [fmt |-> "bad", filename |-> "junk.pdf", pages |-> <<>>]
NoFile == [fmt |-> "none", filename |-> "", pages |-> <<>>]

\* (declared content type, file bytes) of the uploads tried
UploadInputs ==
  { <<"text/plain", PdfExact>>, <<"application/pdf", PdfBlank>>,
    <<"application/pdf", PdfExact>>, <<"application/pdf", Corrupt>>,
    <<"image/jpg", ImgLong>>, <<"image/png", ImgBlank>> }

\* records of session "s1" the store holds before the run
Preloads == {HistoryLimit - 1, HistoryLimit}

OldMsg(i, n) ==
  [_id |-> 0 - i, id |-> "old-" \o ToString(i), session_id |-> "s1",
   message |-> "old question", response |-> "old answer",
   timestamp |-> i - n, message_type |-> "text"]

\* ------------------------------------------------------------------- state
VARIABLES
  chat_messages,   \* db.chat_messages
  documents,       \* db.documents
  now,             \* datetime.utcnow()
  nextUuid,        \* number of uuid4 values drawn so far, plus one
  nextOid,         \* number of _id values the store assigned, plus one
  thread,          \* 0: the event loop is free; r: request r is running on it
  task             \* per request: position, arguments, locals, response

vars == <<chat_messages, documents, now, nextUuid, nextOid, thread, task>>

NoRecord == [id |-> "", session_id |-> "", timestamp |-> 0]

IdleTask ==
  [pc |-> "idle", kind |-> "none",
   request |-> [session_id |-> {}, message |-> "", content_type |-> "", file |-> NoFile],
   session_id |-> "", extracted_text |-> <<>>, extracted |-> FALSE,
   ai_calls |-> 0, ai_failed |-> FALSE, ai_response |-> "",
   doc_record |-> NoRecord, chat_record |-> NoRecord,
   failed_step |-> "none",
   status |-> 0, body |-> [detail |-> ""]]

Init ==
  /\ \E n \in Preloads : chat_messages = {OldMsg(i, n) : i \in 1..n}
  /\ documents = {}
  /\ now = 0
  /\ nextUuid = 1
  /\ nextOid = 1
  /\ thread = 0
  /\ task = [r \in Req |-> IdleTask]

\* a handler starts or resumes only when no other code is running on the
\* event-loop thread
LoopFree == thread = 0

\* requests arrive in slot order
Arrives(r) ==
  /\ task[r].pc = "idle"
  /\ \A q \in Req : q < r => task[q].pc # "idle"

Respond(t, status, body) == [t EXCEPT !.pc = "done", !.status = status, !.body = body]

HttpError(t, status, detail, step) ==
  [Respond(t, status, [detail |-> detail]) EXCEPT !.failed_step = step]

\* the session ids a client has learned from the response of a /chat
\* request and may send back
KnownSessions ==
  {task[q].body.session_id :
     q \in {c \in Req : task[c].kind = "chat" /\ task[c].pc = "done"
                        /\ task[c].status = 200}}

\* ------------------------------------------------------------ /chat
\* lines 173-180 up to "await chat.send_message"
ChatStart(r) ==
  /\ Arrives(r)
  /\ LoopFree
  /\ \E sid \in ChatSessionArgs \cup {{k} : k \in KnownSessions} :
       LET given == Truthy(sid)
           session_id == IF given THEN TheStr(sid) ELSE UuidStr(nextUuid)
       IN /\ task' = [task EXCEPT ![r] =
                 [@ EXCEPT !.pc = "ai_wait", !.kind = "chat",
                           !.request = [@ EXCEPT !.session_id = sid, !.message = "question"],
                           !.session_id = session_id,
                           !.ai_calls = @ + 1]]
          /\ nextUuid' = IF given THEN nextUuid ELSE nextUuid + 1
  /\ UNCHANGED <<chat_messages, documents, now, nextOid, thread>>

\* lines 128-133, 180-189: the AI call returns or raises; build the record
\* and issue the insert
ChatAiDone(r) ==
  /\ task[r].kind = "chat" /\ task[r].pc = "ai_wait"
  /\ LoopFree
  /\ \E sent \in AiOutcomes :
       LET res == get_ai_response(sent)
           chat_record == ChatMessage(UuidStr(nextUuid), task[r].session_id,
                                      task[r].request.message, res.text, now, "text")
       IN IF res.raised
          THEN /\ task' = [task EXCEPT ![r] =
                      HttpError([@ EXCEPT !.ai_failed = TRUE], 500,
                                "Failed to process chat request", "ai")]
               /\ UNCHANGED nextUuid
          ELSE /\ task' = [task EXCEPT ![r] =
                      [@ EXCEPT !.pc = "chat_insert_wait", !.ai_failed = sent.raises,
                                !.ai_response = res.text, !.chat_record = chat_record]]
               /\ nextUuid' = nextUuid + 1
  /\ UNCHANGED <<chat_messages, documents, now, nextOid, thread>>

\* lines 189-199: the insert returns or raises
ChatInsertDone(r) ==
  /\ task[r].kind = "chat" /\ task[r].pc = "chat_insert_wait"
  /\ LoopFree
  /\ \/ /\ chat_messages' = InsertOne(chat_messages, task[r].chat_record, nextOid)
        /\ nextOid' = nextOid + 1
        /\ task' = [task EXCEPT ![r] = Respond(@, 200,
               [response |-> @.ai_response, session_id |-> @.session_id,
                timestamp |-> now, sources |-> Sources])]
     \/ /\ task' = [task EXCEPT ![r] =
               HttpError(@, 500, "Failed to process chat request", "insert")]
        /\ UNCHANGED <<chat_messages, nextOid>>
  /\ UNCHANGED <<documents, now, nextUuid, thread>>

\* ------------------------------------------------------------ /upload-document
\* lines 208-215: validate the declared type, then "await file.read()"
UploadStart(r) ==
  /\ Arrives(r)
  /\ LoopFree
  /\ \E sid \in SessionArgs, up \in UploadInputs :
       LET t == [task[r] EXCEPT !.kind = "upload",
                   !.request = [@ EXCEPT !.session_id = {sid},
                                         !.content_type = up[1], !.file = up[2]],
                   !.session_id = sid]
       IN task' = [task EXCEPT ![r] =
            IF up[1] \notin allowed_types
            THEN HttpError(t, 400, "Only PDF and image files are supported", "type")
            ELSE [t EXCEPT !.pc = "read_wait"]]
  /\ UNCHANGED <<chat_messages, documents, now, nextUuid, nextOid, thread>>

\* lines 215-221: the read returns or raises; on return the handler goes
\* straight into extract_text_from_pdf / extract_text_from_image, whose
\* bodies (lines 138-142, 151-162) contain no await: PDF parsing and OCR run
\* on the event-loop thread until they return
UploadReadDone(r) ==
  /\ task[r].kind = "upload" /\ task[r].pc = "read_wait"
  /\ LoopFree
  /\ \/ /\ task' = [task EXCEPT ![r] = [@ EXCEPT !.pc = "extracting"]]
        /\ thread' = r
     \/ /\ task' = [task EXCEPT ![r] =
               HttpError(@, 500, "Failed to process document", "read")]
        /\ UNCHANGED thread
  /\ UNCHANGED <<chat_messages, documents, now, nextUuid, nextOid>>

\* lines 218-242: extraction returns or raises; empty text is rejected;
\* otherwise the prompt is built and the AI call issued
UploadExtractDone(r) ==
  /\ task[r].kind = "upload" /\ task[r].pc = "extracting"
  /\ thread = r
  /\ thread' = 0
  /\ LET res == ExtractText(task[r].request.content_type, task[r].request.file)
         t == [task[r] EXCEPT !.extracted = res.ok, !.extracted_text = res.text]
     IN task' = [task EXCEPT ![r] =
          IF ~res.ok
          THEN HttpError(t, 400,
                 IF t.request.content_type = "application/pdf"
                 THEN "Failed to extract text from PDF"
                 ELSE "Failed to extract text from image", "extract")
          ELSE IF res.text = <<>>
          THEN HttpError(t, 400, "No text could be extracted from the document", "empty")
          ELSE [t EXCEPT !.pc = "ai_wait", !.ai_calls = @ + 1]]
  /\ UNCHANGED <<chat_messages, documents, now, nextUuid, nextOid>>

\* lines 128-133, 242-251: the AI call returns or raises; build the
\* DocumentUpload and issue its insert
UploadAiDone(r) ==
  /\ task[r].kind = "upload" /\ task[r].pc = "ai_wait"
  /\ LoopFree
  /\ \E sent \in AiOutcomes :
       LET res == get_ai_response(sent)
           doc_record == DocumentUpload(UuidStr(nextUuid), task[r].session_id,
                                        task[r].request.file.filename,
                                        task[r].extracted_text, res.text, now)
       IN IF res.raised
          THEN /\ task' = [task EXCEPT ![r] =
                      HttpError([@ EXCEPT !.ai_failed = TRUE], 500,
                                "Failed to process document", "ai")]
               /\ UNCHANGED nextUuid
          ELSE /\ task' = [task EXCEPT ![r] =
                      [@ EXCEPT !.pc = "doc_insert_wait", !.ai_failed = sent.raises,
                                !.ai_response = res.text, !.doc_record = doc_record]]
               /\ nextUuid' = nextUuid + 1
  /\ UNCHANGED <<chat_messages, documents, now, nextOid, thread>>

\* variant: a failed first insert is swallowed and the handler goes on to
\* the second insert
UploadDocInsertDone_swallow(r) ==
  /\ task[r].kind = "upload" /\ task[r].pc = "doc_insert_wait"
  /\ LoopFree
  /\ \/ /\ documents' = InsertOne(documents, task[r].doc_record, nextOid)
        /\ nextOid' = nextOid + 1
     \/ UNCHANGED <<documents, nextOid>>
  /\ LET chat_record == ChatMessage(UuidStr(nextUuid), task[r].session_id,
                          "Uploaded document: " \o task[r].request.file.filename,
                          task[r].ai_response, now, "document")
     IN task' = [task EXCEPT ![r] =
           [@ EXCEPT !.pc = "chat_insert_wait", !.chat_record = chat_record]]
  /\ nextUuid' = nextUuid + 1
  /\ UNCHANGED <<chat_messages, now, thread>>

\* lines 251-260, 271-273: the first insert returns or raises; build the
\* ChatMessage and issue its insert
UploadDocInsertDone(r) ==
  /\ task[r].kind = "upload" /\ task[r].pc = "doc_insert_wait"
  /\ LoopFree
  /\ \/ /\ documents' = InsertOne(documents, task[r].doc_record, nextOid)
        /\ nextOid' = nextOid + 1
        /\ LET chat_record == ChatMessage(UuidStr(nextUuid), task[r].session_id,
                                 "Uploaded document: " \o task[r].request.file.filename,
                                 task[r].ai_response, now, "document")
           IN task' = [task EXCEPT ![r] =
                 [@ EXCEPT !.pc = "chat_insert_wait", !.chat_record = chat_record]]
        /\ nextUuid' = nextUuid + 1
     \/ /\ task' = [task EXCEPT ![r] =
               HttpError(@, 500, "Failed to process document", "insert_doc")]
        /\ UNCHANGED <<documents, nextOid, nextUuid>>
  /\ UNCHANGED <<chat_messages, now, thread>>

\* lines 260-273: the second insert returns or raises
UploadChatInsertDone(r) ==
  /\ task[r].kind = "upload" /\ task[r].pc = "chat_insert_wait"
  /\ LoopFree
  /\ \/ /\ chat_messages' = InsertOne(chat_messages, task[r].chat_record, nextOid)
        /\ nextOid' = nextOid + 1
        /\ task' = [task EXCEPT ![r] = Respond(@, 200,
               [message |-> "Document processed successfully",
                extracted_text |-> ResponseText(@.extracted_text),
                explanation |-> @.ai_response,
                session_id |-> @.session_id])]
     \/ /\ task' = [task EXCEPT ![r] =
               HttpError(@, 500, "Failed to process document", "insert_chat")]
        /\ UNCHANGED <<chat_messages, nextOid>>
  /\ UNCHANGED <<documents, now, nextUuid, thread>>

\* ------------------------------------------------------------ /chat-history
\* lines 276-281 up to the await of find().sort().to_list()
HistoryStart(r) ==
  /\ Arrives(r)
  /\ LoopFree
  /\ \E sid \in SessionArgs \cup KnownSessions :
       task' = [task EXCEPT ![r] =
         [@ EXCEPT !.pc = "find_wait", !.kind = "history",
                   !.request = [@ EXCEPT !.session_id = {sid}],
                   !.session_id = sid]]
  /\ UNCHANGED <<chat_messages, documents, now, nextUuid, nextOid, thread>>

\* lines 279-299: the query returns its documents or raises
HistoryDone(r) ==
  /\ task[r].kind = "history" /\ task[r].pc = "find_wait"
  /\ LoopFree
  /\ \/ \E messages \in FindSortLimit(chat_messages, task[r].session_id, HistoryLimit) :
          task' = [task EXCEPT ![r] = Respond(@, 200,
             [messages |-> [i \in 1..Len(messages) |-> CleanMsg(messages[i])]])]
     \/ task' = [task EXCEPT ![r] =
             HttpError(@, 500, "Failed to retrieve chat history: store error", "find")]
  /\ UNCHANGED <<chat_messages, documents, now, nextUuid, nextOid, thread>>

\* ------------------------------------------------------------ clock
Tick ==
  /\ now < MaxTime
  /\ now' = now + 1
  /\ UNCHANGED <<chat_messages, documents, nextUuid, nextOid, thread, task>>

Next ==
  \/ \E r \in Req : ChatStart(r)
  \/ \E r \in Req : ChatAiDone(r)
  \/ \E r \in Req : ChatInsertDone(r)
  \/ \E r \in Req : UploadStart(r)
  \/ \E r \in Req : UploadReadDone(r)
  \/ \E r \in Req : UploadExtractDone(r)
  \/ \E r \in Req : UploadAiDone(r)
  \/ \E r \in Req : UploadDocInsertDone(r)
  \/ \E r \in Req : UploadChatInsertDone(r)
  \/ \E r \in Req : HistoryStart(r)
  \/ \E r \in Req : HistoryDone(r)
  \/ Tick

Spec == Init /\ [][Next]_vars

\* ------------------------------------------------------------ vocabulary
Done(r) == task[r].pc = "done"

Upload(r) == task[r].kind = "upload"

Chat(r) == task[r].kind = "chat"

History(r) == task[r].kind = "history"

\* the stored documents / chat messages that request r built
DocsOf(r) == {d \in documents : d.id = task[r].doc_record.id}

MsgsOf(r) == {m \in chat_messages : m.id = task[r].chat_record.id}

Ascending(messages) ==
  \A i \in 1..Len(messages) - 1 : messages[i].timestamp <= messages[i + 1].timestamp

\* the PDF, JPEG and PNG content types; "image/jpg" names JPEG too
SupportedTypes == {"application/pdf", "image/jpeg", "image/jpg", "image/png"}

\* a file whose pages yield nothing but whitespace
Blank(file) ==
  \A i \in 1..Len(file.pages) :
    \A j \in 1..Len(file.pages[i]) : file.pages[i][j] \in {" ", "\n", "\t"}

\* C1: an upload rejected by validation (declared content type not among
\* the supported types, or extraction returned empty text) ends with a 400
\* and no DocumentUpload or ChatMessage of it is in the store.
C1_RejectedUploadPersistsNothing ==
  \A r \in Req :
    (/\ Upload(r) /\ Done(r)
     /\ \/ task[r].request.content_type \notin SupportedTypes
        \/ task[r].extracted /\ task[r].extracted_text = <<>>
        \/ task[r].extracted /\ Blank(task[r].request.file))
    => /\ task[r].status = 400
       /\ DocsOf(r) = {} /\ MsgsOf(r) = {}
       /\ \A d \in Find(documents, task[r].session_id) :
            \E q \in Req \ {r} : d \in DocsOf(q)

C1_Witness ==
  \E r, q \in Req :
    /\ Upload(r) /\ Done(r) /\ task[r].request.content_type \notin SupportedTypes
    /\ Upload(q) /\ Done(q) /\ task[q].request.file = PdfBlank
    /\ task[q].extracted /\ task[q].extracted_text = <<>>
    /\ chat_messages # {}

\* C2: an upload that returned its success response has exactly one
\* DocumentUpload and exactly one ChatMessage of type "document" in the
\* store, both with the request's session_id, which the response repeats.
C2_SuccessfulUploadStoresOnePair ==
  \A r \in Req :
    (Upload(r) /\ Done(r) /\ task[r].status = 200)
    => /\ Cardinality(DocsOf(r)) = 1
       /\ Cardinality(MsgsOf(r)) = 1
       /\ \A d \in DocsOf(r) : {d.session_id} = task[r].request.session_id
       /\ \A m \in MsgsOf(r) :
            /\ {m.session_id} = task[r].request.session_id
            /\ m.message_type = "document"
       /\ {task[r].body.session_id} = task[r].request.session_id

C2_Witness ==
  \E r, q \in Req :
    /\ r # q
    /\ Upload(r) /\ Done(r) /\ task[r].status = 200
    /\ Upload(q) /\ Done(q) /\ task[q].status = 200
    /\ task[r].request.session_id # task[q].request.session_id

\* C3: for a successful upload the stored extracted_text is the whole
\* extracted text, and the response's extracted_text is the stored text if
\* that has at most 500 characters, otherwise its first 500 characters
\* followed by "...".
C3_ResponseTextTruncatedStoredTextFull ==
  \A r \in Req :
    (Upload(r) /\ Done(r) /\ task[r].status = 200)
    => \A d \in DocsOf(r) :
         /\ d.extracted_text =
              ExtractText(task[r].request.content_type, task[r].request.file).text
         /\ Len(d.extracted_text) <= 500
              => task[r].body.extracted_text = d.extracted_text
         /\ Len(d.extracted_text) > 500
              => /\ Len(task[r].body.extracted_text) = 503
                 /\ \A i \in 1..500 : task[r].body.extracted_text[i] = d.extracted_text[i]
                 /\ \A i \in 501..503 : task[r].body.extracted_text[i] = "."

C3_Witness ==
  \E r, q \in Req :
    /\ Upload(r) /\ Done(r) /\ task[r].status = 200
    /\ Len(task[r].extracted_text) = 500 /\ DocsOf(r) # {}
    /\ Upload(q) /\ Done(q) /\ task[q].status = 200
    /\ Len(task[q].extracted_text) = 501 /\ DocsOf(q) # {}

\* a get_chat_history call of h returns its list in this step
HistoryReturns(h) ==
  /\ History(h) /\ task[h].pc = "find_wait"
  /\ task'[h].pc = "done" /\ task'[h].status = 200

\* the /chat requests made with session_id sid that have completed
CompletedChats(sid) ==
  {c \in Req : Chat(c) /\ Done(c) /\ task[c].status = 200
               /\ task[c].request.session_id = {sid}}

HasPairOf(messages, c) ==
  \E i \in 1..Len(messages) :
    /\ messages[i].id = task[c].chat_record.id
    /\ messages[i].message = task[c].request.message
    /\ messages[i].response = task[c].body.response

\* C4 as claimed: every get_chat_history call that returns after a /chat
\* request with that session_id completed returns an ascending list that
\* contains the request's message/response pair, whatever the number of
\* records of the session.
C4_HistoryAlwaysHasNewPair ==
  [][\A h \in Req :
       HistoryReturns(h) =>
         /\ Ascending(task'[h].body.messages)
         /\ \A c \in CompletedChats(task[h].session_id) :
              HasPairOf(task'[h].body.messages, c)]_vars

\* the /chat requests made without a session_id
Sessionless(r) == Chat(r) /\ task[r].request.session_id = {}

\* the session ids in use: of stored records and of the requests so far
UsedSessions ==
  {d.session_id : d \in documents} \cup {m.session_id : m \in chat_messages}
    \cup {task[q].session_id : q \in {p \in Req : task[p].pc # "idle"}}

\* C5: a /chat request without session_id gets a session_id that no record
\* and no other request carries (so it differs from the one generated for
\* every other such call); that session_id is the one of the ChatMessage
\* the request stores and of its response.
C5_GeneratedSessionFreshAndDistinct ==
  [][\A r \in Req :
       /\ (task[r].pc = "idle" /\ Sessionless(r)')
            => task'[r].session_id \notin UsedSessions
       /\ (Sessionless(r) /\ task[r].pc = "chat_insert_wait"
             /\ task'[r].pc = "done" /\ task'[r].status = 200)
            => /\ task'[r].body.session_id = task[r].session_id
               /\ Cardinality(chat_messages' \ chat_messages) = 1
               /\ \A m \in chat_messages' \ chat_messages :
                    /\ m.session_id = task[r].session_id
                    /\ m.id = task[r].chat_record.id]_vars

C5_Witness ==
  \E r, q \in Req :
    /\ r # q
    /\ Sessionless(r) /\ Done(r) /\ task[r].status = 200
    /\ Sessionless(q) /\ Done(q) /\ task[q].status = 200
    /\ task[r].session_id # task[q].session_id

\* C6: in /chat a failure of the AI call gives the apology text, stored in
\* the ChatMessage and returned in a normal ChatResponse; a 500 comes only
\* from the failed insert; the AI is called at most once per request.
C6_AiFailureIsNotAnHttpError ==
  \A r \in Req :
    Chat(r) =>
      /\ task[r].ai_calls <= 1
      /\ (Done(r) /\ task[r].status # 200) =>
           /\ task[r].status = 500
           /\ task[r].failed_step = "insert"
           /\ MsgsOf(r) = {}
      /\ (Done(r) /\ task[r].ai_failed /\ task[r].failed_step # "insert") =>
           /\ task[r].status = 200
           /\ task[r].body.response = Apology
           /\ Cardinality(MsgsOf(r)) = 1
           /\ \A m \in MsgsOf(r) : m.response = Apology

C6_Witness ==
  \E r, q \in Req :
    /\ Chat(r) /\ Done(r) /\ task[r].ai_failed /\ task[r].status = 200
    /\ Chat(q) /\ Done(q) /\ task[q].status = 500

\* a step of the get_chat_history call of h
HistoryStep(h) ==
  \/ task[h].pc = "idle" /\ task'[h].kind = "history"
  \/ History(h) /\ task[h].pc = "find_wait" /\ task'[h].pc = "done"

\* C7: get_chat_history returns only stored ChatMessage records of the
\* requested session, at most 100, in ascending timestamp order; the empty
\* list for a session without records; a 500 exactly when the store call
\* fails; and it leaves both collections unchanged.
C7_HistoryContract ==
  [][\A h \in Req :
       HistoryStep(h) =>
         /\ UNCHANGED <<chat_messages, documents>>
         /\ task'[h].pc = "done" =>
              LET sid == task[h].session_id
                  found == Find(chat_messages, sid)
              IN /\ task'[h].status \in {200, 500}
                 /\ task'[h].status = 500 <=> task'[h].failed_step = "find"
                 /\ task'[h].status = 200 =>
                      LET messages == task'[h].body.messages
                      IN /\ Len(messages) <= 100
                         /\ Ascending(messages)
                         /\ \A i \in 1..Len(messages) :
                              /\ messages[i].session_id = sid
                              /\ \E m \in found : messages[i] = CleanMsg(m)
                         /\ found = {} => messages = <<>>]_vars

C7_Witness ==
  \E h, q \in Req :
    /\ History(h) /\ Done(h) /\ task[h].status = 200 /\ task[h].body.messages = <<>>
    /\ History(q) /\ Done(q) /\ task[q].status = 200 /\ Len(task[q].body.messages) = 100
    /\ Cardinality(chat_messages) >= 100

\* request r is inside a call of a collaborator (store, extraction, AI)
InCollaborator(r) ==
  task[r].pc \in {"read_wait", "extracting", "ai_wait", "doc_insert_wait",
                  "chat_insert_wait", "find_wait"}

\* C8 as claimed: while a request is inside a collaborator call, every
\* other request that is not yet answered can be resumed on the thread.
C8_CollaboratorStallsOnlyItsRequest ==
  \A r, q \in Req :
    (r # q /\ InCollaborator(r) /\ task[q].pc \notin {"idle", "done"})
      => LoopFree

\* C9 as claimed: a /chat request that carries a session_id, whatever the
\* string, uses exactly that string; an identifier is generated only when
\* session_id is absent.
C9_SuppliedSessionIdIsUsed ==
  \A r \in Req :
    (Chat(r) /\ task[r].request.session_id # {})
      => {task[r].session_id} = task[r].request.session_id

\* the sessions that name a record or a request
Sessions ==
  {d.session_id : d \in documents} \cup {m.session_id : m \in chat_messages}
    \cup {task[r].session_id : r \in Req}

\* the uploads of session sid whose DocumentUpload is stored and whose
\* ChatMessage is not: between the two inserts, or second insert failed
HalfStored(sid) ==
  {r \in Req : /\ Upload(r) /\ task[r].session_id = sid
               /\ \/ task[r].pc = "chat_insert_wait"
                  \/ Done(r) /\ task[r].status = 500
                       /\ task[r].failed_step = "insert_chat"}

\* C10: for each session the ChatMessage records of type "document" are at
\* most as many as the DocumentUpload records, and the difference is the
\* number of uploads between their two inserts or with a failed second
\* insert.
C10_DocumentChatsNeverExceedDocuments ==
  \A sid \in Sessions :
    LET docs == Cardinality(Find(documents, sid))
        chats == Cardinality({m \in Find(chat_messages, sid) :
                                m.message_type = "document"})
    IN /\ chats <= docs
       /\ docs - chats = Cardinality(HalfStored(sid))

C10_Witness ==
  \E r, q \in Req :
    /\ r # q /\ task[r].session_id = task[q].session_id
    /\ Upload(r) /\ Done(r) /\ task[r].failed_step = "insert_chat"
    /\ Upload(q) /\ task[q].pc = "chat_insert_wait"
    /\ Cardinality(Find(documents, task[r].session_id)) = 2

====
